---- MODULE Spec2Model ----
(***************************************************************************)
(* Model of the headline scraper of src/news.py: the worker thread         *)
(* ScraperThread (run, scrape_source, stop) and the handlers of            *)
(* NewsScraperApp that start and stop it.                                  *)
(*                                                                         *)
(* A Python string is modelled as a sequence of one-character strings, so  *)
(* that len(), strip(), split(), lower(), startswith(), `in` and urljoin() *)
(* are computed character by character as the code computes them.          *)
(* An optional value (None or a string) is <<>> or <<s>>.                  *)
(* The 'timestamp' field of a headline record (datetime.now() at emission) *)
(* is left out: no modelled operation reads it.                            *)
(***************************************************************************)
EXTENDS Integers, Sequences, FiniteSets, TLC

VARIABLES
    news_sources,    \* NewsScraperApp.news_sources: the source catalog (a list)
    scrape_btn,      \* scrape_btn.isEnabled()
    stop_btn,        \* stop_btn.isEnabled()
    scraper_thread,  \* NewsScraperApp.scraper_thread: 0 (None) or the index of a thread
    timer_active,    \* auto_refresh_timer.isActive()
    timeout_spin,    \* timeout_spin.value(): the request timeout of the settings tab
    delay_spin,      \* delay_spin.value(): the delay between requests of the settings tab
    threads,         \* the ScraperThread objects created so far, by creation order
    pending,         \* finished_scraping signals queued to the GUI thread, oldest first
    waiting,         \* the thread stop_scraping is blocked on in wait(), or 0
    warnings,        \* "No sources selected!" message boxes shown
    rejected,        \* who has called start_scraping in vain since a thread was last created
    ex               \* the extraction loop of scrape_source, stepped element by element

vars == <<news_sources, scrape_btn, stop_btn, scraper_thread, timer_active,
          timeout_spin, delay_spin, threads, pending, waiting, warnings, rejected, ex>>

----------------------------------------------------------------------------
(* Bounds of the model *)

\* sources of the preconfigured catalog that are modelled
NumSources == 1
\* ScraperThread objects created in one behaviour
MaxRuns == 2
\* elements a selector returns on one page
MaxElems == 3
\* max_headlines values given to the extraction loop: 1..MaxHeadlines
MaxHeadlines == 2

----------------------------------------------------------------------------
(* Python string operations *)

Whitespace == {" ", "\n", "\t"}

UpperChars == <<"A","B","C","D","E","F","G","H","I","J","K","L","M","N","O","P","Q","R","S","T","U","V","W","X","Y","Z">>

LowerChars == <<"a","b","c","d","e","f","g","h","i","j","k","l","m","n","o","p","q","r","s","t","u","v","w","x","y","z">>

Lower(c) ==
    IF \E i \in 1..Len(UpperChars) : UpperChars[i] = c
    THEN LowerChars[CHOOSE i \in 1..Len(UpperChars) : UpperChars[i] = c]
    ELSE c

\* str.lower()
ToLower(s) == [i \in 1..Len(s) |-> Lower(s[i])]

\* p in s
Contains(s, p) == \E i \in 0..(Len(s) - Len(p)) : SubSeq(s, i + 1, i + Len(p)) = p

\* s.startswith(p)
StartsWith(s, p) == Len(s) >= Len(p) /\ SubSeq(s, 1, Len(p)) = p

\* s.find(c) for c in a set of characters, 1-based; 0 when absent
FindFirst(s, cs) ==
    IF \E i \in 1..Len(s) : s[i] \in cs
    THEN CHOOSE i \in 1..Len(s) : s[i] \in cs /\ \A j \in 1..(i - 1) : s[j] \notin cs
    ELSE 0

RECURSIVE LStrip(_)
LStrip(s) == IF s # <<>> /\ Head(s) \in Whitespace THEN LStrip(Tail(s)) ELSE s

RECURSIVE RStrip(_)
RStrip(s) ==
    IF s # <<>> /\ s[Len(s)] \in Whitespace THEN RStrip(SubSeq(s, 1, Len(s) - 1)) ELSE s

\* str.strip()
Strip(s) == RStrip(LStrip(s))

\* str.split(): the maximal runs of non-whitespace characters
RECURSIVE Split(_)
Split(s) ==
    LET t == LStrip(s)
        k == FindFirst(t, Whitespace)
    IN  IF t = <<>> THEN <<>>
        ELSE IF k = 0 THEN <<t>>
        ELSE <<SubSeq(t, 1, k - 1)>> \o Split(SubSeq(t, k, Len(t)))

\* s.split(c): the pieces between the occurrences of c, empty pieces kept
RECURSIVE SplitOn(_, _)
SplitOn(s, c) ==
    LET k == FindFirst(s, {c})
    IN  IF k = 0 THEN <<s>>
        ELSE <<SubSeq(s, 1, k - 1)>> \o SplitOn(SubSeq(s, k + 1, Len(s)), c)

\* sep.join(words)
RECURSIVE Join(_, _)
Join(sep, words) ==
    IF words = <<>> THEN <<>>
    ELSE IF Len(words) = 1 THEN words[1]
    ELSE words[1] \o sep \o Join(sep, Tail(words))

----------------------------------------------------------------------------
(* urllib.parse.urljoin, as scrape_source uses it to make a link absolute *)

Letters == {UpperChars[i] : i \in 1..Len(UpperChars)} \cup {LowerChars[i] : i \in 1..Len(LowerChars)}

SchemeChars == Letters \cup {"0", "1", "2", "3", "4", "5", "6", "7", "8", "9", "+", "-", "."}

\* urllib.parse.uses_relative and uses_netloc, restricted to the schemes of the model
UsesRelative == {<<>>, <<"h","t","t","p">>, <<"h","t","t","p","s">>, <<"f","t","p">>, <<"f","i","l","e">>}

UsesNetloc == {<<>>, <<"h","t","t","p">>, <<"h","t","t","p","s">>, <<"f","t","p">>, <<"f","i","l","e">>}

\* urlsplit: the query and the path of what is left once the fragment is cut off
SplitQuery(scheme, netloc, bad, fragment, rest) ==
    LET q == FindFirst(rest, {"?"})
    IN  [bad |-> bad, scheme |-> scheme, netloc |-> netloc,
         path |-> IF q = 0 THEN rest ELSE SubSeq(rest, 1, q - 1),
         query |-> IF q = 0 THEN <<>> ELSE SubSeq(rest, q + 1, Len(rest)),
         fragment |-> fragment]

\* urlsplit: the fragment of what follows the network location
SplitFragment(scheme, netloc, bad, rest) ==
    LET f == FindFirst(rest, {"#"})
    IN  SplitQuery(scheme, netloc, bad,
                   IF f = 0 THEN <<>> ELSE SubSeq(rest, f + 1, Len(rest)),
                   IF f = 0 THEN rest ELSE SubSeq(rest, 1, f - 1))

\* a network location with one bracket and not the other:
\* ValueError("Invalid IPv6 URL")
BadNetloc(netloc) ==
    ("[" \in {netloc[j] : j \in 1..Len(netloc)}) # ("]" \in {netloc[j] : j \in 1..Len(netloc)})

\* urlsplit: the network location that follows "//", up to the first of / ? #
SplitNetloc(scheme, after) ==
    LET d == FindFirst(after, {"/", "?", "#"})
    IN  IF d = 0 THEN SplitFragment(scheme, after, BadNetloc(after), <<>>)
        ELSE SplitFragment(scheme, SubSeq(after, 1, d - 1),
                           BadNetloc(SubSeq(after, 1, d - 1)),
                           SubSeq(after, d, Len(after)))

\* urlsplit: what follows the scheme
SplitAfterScheme(scheme, rest) ==
    IF StartsWith(rest, <<"/","/">>) THEN SplitNetloc(scheme, SubSeq(rest, 3, Len(rest)))
    ELSE SplitFragment(scheme, <<>>, FALSE, rest)

\* urlsplit(url, scheme): bad stands for ValueError("Invalid IPv6 URL")
urlsplit(url, default_scheme) ==
    LET i == FindFirst(url, {":"})
    IN  IF i > 1 /\ url[1] \in Letters /\ \A j \in 1..(i - 1) : url[j] \in SchemeChars
        THEN SplitAfterScheme(ToLower(SubSeq(url, 1, i - 1)), SubSeq(url, i + 1, Len(url)))
        ELSE SplitAfterScheme(default_scheme, url)

\* urlunsplit((scheme, netloc, path, query, fragment))
WithNetloc(scheme, netloc, path) ==
    IF netloc # <<>> \/ (scheme # <<>> /\ scheme \in UsesNetloc /\ ~StartsWith(path, <<"/","/">>))
    THEN <<"/","/">> \o netloc \o (IF path # <<>> /\ path[1] # "/" THEN <<"/">> ELSE <<>>) \o path
    ELSE path

urlunsplit(scheme, netloc, path, query, fragment) ==
    (IF scheme # <<>> THEN scheme \o <<":">> ELSE <<>>)
    \o WithNetloc(scheme, netloc, path)
    \o (IF query # <<>> THEN <<"?">> \o query ELSE <<>>)
    \o (IF fragment # <<>> THEN <<"#">> \o fragment ELSE <<>>)

\* segments[1:-1] = filter(None, segments[1:-1])
DropEmptyInner(segments) ==
    LET n == Len(segments)
    IN  IF n <= 2 THEN segments
        ELSE <<segments[1]>>
             \o SelectSeq(SubSeq(segments, 2, n - 1), LAMBDA x : x # <<>>)
             \o <<segments[n]>>

\* the loop of urljoin that removes the "." and ".." segments
RECURSIVE RemoveDots(_, _)
RemoveDots(segments, resolved) ==
    IF segments = <<>> THEN resolved
    ELSE IF Head(segments) = <<".",".">>
         THEN RemoveDots(Tail(segments),
                         IF Len(resolved) > 0 THEN SubSeq(resolved, 1, Len(resolved) - 1)
                         ELSE resolved)
    ELSE IF Head(segments) = <<".">> THEN RemoveDots(Tail(segments), resolved)
    ELSE RemoveDots(Tail(segments), Append(resolved, Head(segments)))

\* urljoin: the path of the base merged with the relative path
MergedSegments(bpath, path) ==
    LET base_all == SplitOn(bpath, "/")
    IN  DropEmptyInner(
            IF StartsWith(path, <<"/">>) THEN SplitOn(path, "/")
            ELSE (IF base_all[Len(base_all)] # <<>>
                  THEN SubSeq(base_all, 1, Len(base_all) - 1) ELSE base_all)
                 \o SplitOn(path, "/"))

ResolvedPath(segments) ==
    Join(<<"/">>, IF segments[Len(segments)] \in {<<".">>, <<".",".">>}
                  THEN Append(RemoveDots(segments, <<>>), <<>>)
                  ELSE RemoveDots(segments, <<>>))

NonEmptyOr(s, default) == IF s # <<>> THEN s ELSE default

\* urljoin once the base is split as b and the url as u
JoinParts(b, u, url) ==
    IF b.bad \/ u.bad THEN [raised |-> TRUE, url |-> <<>>]
    ELSE IF u.scheme # b.scheme \/ u.scheme \notin UsesRelative
    THEN [raised |-> FALSE, url |-> url]
    ELSE IF u.scheme \in UsesNetloc /\ u.netloc # <<>>
    THEN [raised |-> FALSE,
          url |-> urlunsplit(u.scheme, u.netloc, u.path, u.query, u.fragment)]
    ELSE IF u.path = <<>>
    THEN [raised |-> FALSE,
          url |-> urlunsplit(u.scheme, b.netloc, b.path, NonEmptyOr(u.query, b.query),
                             u.fragment)]
    ELSE [raised |-> FALSE,
          url |-> urlunsplit(u.scheme, b.netloc,
                             NonEmptyOr(ResolvedPath(MergedSegments(b.path, u.path)),
                                        <<"/">>),
                             u.query, u.fragment)]

JoinSplit(b, url) == JoinParts(b, urlsplit(url, b.scheme), url)

\* urljoin(base, url): [raised, url]
urljoin(base, url) ==
    IF base = <<>> THEN [raised |-> FALSE, url |-> url]
    ELSE IF url = <<>> THEN [raised |-> FALSE, url |-> base]
    ELSE JoinSplit(urlsplit(base, <<>>), url)

----------------------------------------------------------------------------
(* The source catalog *)

NewsSource(name, url, selectors) == [name |-> name, url |-> url, selectors |-> selectors]

\* NewsScraperApp.__init__: self.news_sources, in the order of the code
PreconfiguredSources == <<
    NewsSource("BBC News", <<"h","t","t","p","s",":","/","/","w","w","w",".","b","b","c",".","c","o","m","/","n","e","w","s">>,
               <<"h3", ".media__title a", ".gs-c-promo-heading__title">>),
    NewsSource("Reuters", <<"h","t","t","p","s",":","/","/","w","w","w",".","r","e","u","t","e","r","s",".","c","o","m">>,
               <<"h3 a", ".story-title", "h2 a">>),
    NewsSource("CNN", <<"h","t","t","p","s",":","/","/","w","w","w",".","c","n","n",".","c","o","m">>,
               <<"h3 a", ".cd__headline-text", "h2 a">>),
    NewsSource("The Guardian", <<"h","t","t","p","s",":","/","/","w","w","w",".","t","h","e","g","u","a","r","d","i","a","n",".","c","o","m">>,
               <<".fc-item__title a", "h3 a", ".u-faux-block-link__overlay">>),
    NewsSource("Associated Press", <<"h","t","t","p","s",":","/","/","a","p","n","e","w","s",".","c","o","m">>,
               <<".PagePromo-title a", "h1 a", "h2 a">>),
    NewsSource("Indian Express", <<"h","t","t","p","s",":","/","/","i","n","d","i","a","n","e","x","p","r","e","s","s",".","c","o","m","/","s","e","c","t","i","o","n","/","i","n","d","i","a","/">>,
               <<".title a", "h2 a", "h3 a", ".ie-custom-story-item h3 a",
                 ".story-details h3 a">>),
    NewsSource("Times of India", <<"h","t","t","p","s",":","/","/","t","i","m","e","s","o","f","i","n","d","i","a",".","i","n","d","i","a","t","i","m","e","s",".","c","o","m","/","i","n","d","i","a">>,
               <<".content a", "h2 a", "h3 a", ".story-list h3 a">>),
    NewsSource("Hindustan Times", <<"h","t","t","p","s",":","/","/","w","w","w",".","h","i","n","d","u","s","t","a","n","t","i","m","e","s",".","c","o","m","/","i","n","d","i","a","-","n","e","w","s">>,
               <<".hdg3 a", "h3 a", ".story-title", ".big-news h3 a">>),
    NewsSource("NDTV", <<"h","t","t","p","s",":","/","/","w","w","w",".","n","d","t","v",".","c","o","m","/","i","n","d","i","a">>,
               <<".nstory_header a", "h2 a", "h3 a", ".story-title">>),
    NewsSource("India Today", <<"h","t","t","p","s",":","/","/","w","w","w",".","i","n","d","i","a","t","o","d","a","y",".","i","n","/","i","n","d","i","a">>,
               <<".detail h3 a", "h2 a", "h3 a", ".story-kicker">>) >>

\* The catalog entries the model keeps, NumSources of them: an ordinary source
\* first, then one of the two the code treats as protected against bots.
ModelledEntries == <<1, 6, 3, 7, 2, 4, 5, 8, 9, 10>>

InitialCatalog == [k \in 1..NumSources |-> PreconfiguredSources[ModelledEntries[k]]]

\* start_scraping: the source built from the custom URL field
CustomSource(custom_url) ==
    NewsSource("Custom URL", custom_url,
               <<"h1", "h2", "h3", ".headline", ".title", "article h2", "article h3">>)

\* what the user may have typed in the custom URL field, stripped
CustomUrls == {<<>>, <<"h","t","t","p","s",":","/","/","e","x","a","m","p","l","e",".","c","o","m","/","n","e","w","s">>}

----------------------------------------------------------------------------
(* Elements of a parsed page.  name is the tag; text is get_text() of the  *)
(* element; nested is get_text() of its first descendant heading, span or  *)
(* div; href is its own href attribute; ahref is the href of its first     *)
(* descendant anchor.  get_text() includes the text of the descendants, so *)
(* an element whose text is blank has only blank descendants.              *)

Element(name, text, nested, href, ahref) ==
    [name |-> name, text |-> text, nested |-> nested, href |-> href, ahref |-> ahref]

ElementPool == <<
    Element("h3", <<"N","e","w","s">>, <<>>, <<>>, <<>>),
    Element("a", <<"B","R","E","A","K","I","N","G"," ","s","t","o","r","m"," ","a","h","e","a","d">>, <<>>, <<<<"/","w","o","r","l","d","/","s","t","o","r","y","-","1">>>>, <<>>),
    Element("h3", <<"B","r","e","a","k","i","n","g",":"," ","p","a","r","l","i","a","m","e","n","t"," ","p","a","s","s","e","s"," ","a"," ","n","e","w"," ","b","u","d","g","e","t">>, <<>>, <<>>,
            <<<<"/","w","o","r","l","d","/","s","t","o","r","y","-","1">>>>),
    Element("a", <<"F","l","o","o","d"," ","h","i","t","s"," ","t","h","e"," ","c","i","t","y">>, <<>>, <<<<"h","t","t","p","s",":","/","/","e","x","a","m","p","l","e",".","c","o","m","/","a">>>>, <<>>),
    Element("div", <<" "," ","F","l","o","o","d"," "," "," ","h","i","t","s","\n"," ","t","h","e"," ","c","i","t","y"," ">>, <<<<"F","l","o","o","d"," "," "," ","h","i","t","s">>>>, <<>>, <<>>),
    Element("a", <<"R","a","i","n"," ","i","n"," ","t","h","e"," ","s","k","y">>, <<>>, <<>>, <<>>),
    Element("h2", <<"R","a","i","n"," ","i","n"," ","a"," ","l","a","k","e">>, <<>>, <<>>, <<<<"s","t","o","r","y","-","2">>>>),
    Element("a", <<"T","h","e"," ","m","a","y","o","r"," ","r","e","a","d","s"," ","m","o","r","e"," ","e","a","c","h"," ","d","a","y">>, <<<<"T","h","e"," ","m","a","y","o","r">>>>, <<<<"#","t","o","p">>>>, <<>>),
    Element("a", <<"T","h","e"," ","m","a","y","o","r"," ","r","e","a","d","s"," ","m","o","r","e"," ","e","a","c","h"," ","w","e","e","k">>, <<>>, <<<<>>>>, <<>>),
    Element("a", <<" ","\n"," ">>, <<<<" ">>>>, <<<<"/","g","a","l","l","e","r","y">>>>, <<>>),
    Element("a", <<"M","a","r","k","e","t","s"," ","r","a","l","l","y"," ","a","s"," ","i","n","f","l","a","t","i","o","n"," ","c","o","o","l","s"," ","f","u","r","t","h","e","r">>, <<>>, <<<<"/","/","[">>>>, <<>>),
    Element("a", <<"C","o","u","n","c","i","l"," ","o","p","e","n","s"," ","i","t","s"," ","o","l","d","e","r"," ","a","r","c","h","i","v","e","s">>, <<>>, <<<<"h","t","t","p","f","o","o","/","b","a","r">>>>, <<>>),
    Element("a", <<"W","r","i","t","e"," ","t","o"," ","t","h","e"," ","e","d","i","t","o","r"," ","o","f"," ","t","h","i","s"," ","p","a","p","e","r">>, <<>>,
            <<<<"m","a","i","l","t","o",":","e","d","i","t","o","r","@","e","x","a","m","p","l","e",".","c","o","m">>>>, <<>>),
    Element("a", <<"O","p","e","n"," ","t","h","e"," ","i","n","t","e","r","a","c","t","i","v","e"," ","b","u","d","g","e","t"," ","c","h","a","r","t">>, <<>>, <<<<"j","a","v","a","s","c","r","i","p","t",":","v","o","i","d","(","0",")">>>>,
            <<>>) >>

Elements == 1..Len(ElementPool)

----------------------------------------------------------------------------
(* scrape_source: from the selected elements to the headline records *)

Headings == {"h1", "h2", "h3", "h4", "h5", "h6"}

\* the title text of an element, before the clean-up
GetTitle(element) ==
    IF element.name \in Headings THEN Strip(element.text)
    ELSE IF element.name = "a"
         THEN IF Strip(element.text) # <<>> THEN Strip(element.text)
              ELSE IF element.nested # <<>> THEN Strip(element.nested[1])
              ELSE <<>>
    ELSE Strip(element.text)

\* title = ' '.join(title.split())
CleanTitle(title) == Join(<<" ">>, Split(title))

skip_patterns == <<
    <<"H","o","m","e">>, <<"N","e","w","s">>, <<"S","p","o","r","t","s">>, <<"B","u","s","i","n","e","s","s">>, <<"O","p","i","n","i","o","n">>, <<"E","n","t","e","r","t","a","i","n","m","e","n","t">>,
    <<"L","o","g","i","n">>, <<"S","u","b","s","c","r","i","b","e">>, <<"A","d","v","e","r","t","i","s","e","m","e","n","t">>, <<"M","o","r","e">>, <<"L","a","t","e","s","t">>, <<"B","r","e","a","k","i","n","g">>,
    <<"T","o","p"," ","S","t","o","r","i","e","s">>, <<"R","e","a","d"," ","M","o","r","e">>, <<"V","i","e","w"," ","A","l","l">>, <<"L","o","a","d"," ","M","o","r","e">> >>

\* a variant of the test below that lets a title already seen through; the
\* distinctness of the emitted titles depends on the difference
TooShortOrDuplicate_NoDup(title, processed_titles) ==
    title = <<>> \/ Len(title) < 15

\* if not title or len(title) < 15 or title in processed_titles: continue
TooShortOrDuplicate(title, processed_titles) ==
    title = <<>> \/ Len(title) < 15 \/ title \in processed_titles

\* a variant of the test below that compares without .lower(); the rejection
\* of "BREAKING storm ahead" depends on the difference
LooksLikeNavigation_CaseSensitive(title) ==
    /\ \E k \in 1..Len(skip_patterns) : Contains(title, skip_patterns[k])
    /\ Len(title) < 30

\* if any(pattern.lower() in title.lower() ...) and len(title) < 30: continue
LooksLikeNavigation(title) ==
    /\ \E k \in 1..Len(skip_patterns) :
           Contains(ToLower(title), ToLower(skip_patterns[k]))
    /\ Len(title) < 30

\* the link of an element: None, or the href found
GetLink(element) == IF element.name = "a" THEN element.href ELSE element.ahref

\* if link and not link.startswith('http'): link = urljoin(source.url, link)
MakeAbsolute(source, link) ==
    IF link # <<>> /\ link[1] # <<>> /\ ~StartsWith(link[1], <<"h","t","t","p">>)
    THEN LET j == urljoin(source.url, link[1])
         IN  [raised |-> j.raised, link |-> <<j.url>>]
    ELSE [raised |-> FALSE, link |-> link]

\* headline_data, without its timestamp; 'url': link or source.url
HeadlineData(title, link, source) ==
    [title |-> title,
     url |-> IF link # <<>> /\ link[1] # <<>> THEN link[1] ELSE source.url,
     source |-> source.name]

\* the sources a thread can be given
KnownSources ==
    {InitialCatalog[k] : k \in 1..Len(InitialCatalog)}
    \cup {CustomSource(u) : u \in CustomUrls \ {<<>>}}

\* The cleaned title of every element of the pool, the titles the navigation
\* test skips and the absolute link of every element for every source, each
\* computed once by the operators above.
Titles == [e \in Elements |-> CleanTitle(GetTitle(ElementPool[e]))]

NavigationTitles == {Titles[e] : e \in {x \in Elements : LooksLikeNavigation(Titles[x])}}

AbsoluteLinks ==
    [source \in KnownSources |->
        [e \in Elements |-> MakeAbsolute(source, GetLink(ElementPool[e]))]]

\* the locals of the extraction loop before its first iteration
LoopStart ==
    [count |-> 0, processed_titles |-> {}, headlines |-> <<>>,
     raised |-> FALSE, stopped |-> FALSE]

\* a variant of the operator below in which processed_titles outlives the
\* call; that a second pass gives the same records depends on the difference
FreshLocals_KeepsTitles(st) == [LoopStart EXCEPT !.processed_titles = st.processed_titles]

\* headlines, processed_titles and count are locals of scrape_source: a call
\* begins with new ones, whatever the locals st of an earlier call hold
FreshLocals(st) == LoopStart

\* a variant of the iteration below in which `count += 1` is reached by the
\* elements the tests skip too; the meaning of max_headlines depends on the
\* difference
ExtractStep_CountsSkipped(st, e, source, max_headlines) ==
    IF st.count >= max_headlines THEN [st EXCEPT !.stopped = TRUE]
    ELSE LET title == Titles[e]
         IN  IF TooShortOrDuplicate(title, st.processed_titles)
             THEN [st EXCEPT !.count = @ + 1]
             ELSE IF title \in NavigationTitles THEN [st EXCEPT !.count = @ + 1]
             ELSE LET abs == AbsoluteLinks[source][e]
                  IN  IF abs.raised
                      THEN [st EXCEPT !.processed_titles = @ \cup {title},
                                      !.raised = TRUE]
                      ELSE [st EXCEPT !.processed_titles = @ \cup {title},
                                      !.headlines =
                                          Append(@, HeadlineData(title, abs.link, source)),
                                      !.count = @ + 1]

\* One iteration of `for element in elements`, for the element e of the pool.
\* Every record appended to headlines is emitted by headline_found in the same
\* iteration, so headlines is also the sequence of records emitted so far.
ExtractStep(st, e, source, max_headlines) ==
    IF st.count >= max_headlines THEN [st EXCEPT !.stopped = TRUE]
    ELSE LET title == Titles[e]
         IN  IF TooShortOrDuplicate(title, st.processed_titles) THEN st
             ELSE IF title \in NavigationTitles THEN st
             ELSE LET abs == AbsoluteLinks[source][e]
                  IN  IF abs.raised
                      THEN [st EXCEPT !.processed_titles = @ \cup {title},
                                      !.raised = TRUE]
                      ELSE [st EXCEPT !.processed_titles = @ \cup {title},
                                      !.headlines =
                                          Append(@, HeadlineData(title, abs.link, source)),
                                      !.count = @ + 1]

\* the whole loop over the elements, from the locals st
RECURSIVE ExtractLoop(_, _, _, _)
ExtractLoop(st, elements, source, max_headlines) ==
    IF elements = <<>> \/ st.raised \/ st.stopped THEN st
    ELSE ExtractLoop(ExtractStep(st, Head(elements), source, max_headlines),
                     Tail(elements), source, max_headlines)

----------------------------------------------------------------------------
(* scrape_source: fetching the page *)

\* What one session.get() call meets: a response with a status code, or a
\* transport failure (exc is "timeout" or "connection").
Resp(status) == [exc |-> "", status |-> status]

Exc(kind) == [exc |-> kind, status |-> 0]

\* Exceptions.  cls is "RequestException" for requests.exceptions.* and
\* "Exception" for any other; text says what str(e) is about; status is the
\* status code str(e) shows, 0 when it shows none.
Transport(kind) == [cls |-> "RequestException", text |-> kind, status |-> 0]

HTTPError(status) == [cls |-> "RequestException", text |-> "http", status |-> status]

OtherError(text, status) == [cls |-> "Exception", text |-> text, status |-> status]

\* requests.Response.__bool__: the response is "ok" when its status is below 400
ResponseOk(status) == status < 400

\* 'indianexpress.com' in source.url or 'timesofindia.indiatimes.com' in source.url
is_hardened(url) ==
    Contains(url, <<"i","n","d","i","a","n","e","x","p","r","e","s","s",".","c","o","m">>) \/ Contains(url, <<"t","i","m","e","s","o","f","i","n","d","i","a",".","i","n","d","i","a","t","i","m","e","s",".","c","o","m">>)

max_attempts == 3

Get(user_agent, timeout) == [op |-> "get", user_agent |-> user_agent, secs |-> timeout]

Sleep(secs) == [op |-> "sleep", user_agent |-> "", secs |-> secs]

\* the locals of the attempt loop before its first iteration (after time.sleep(2))
AttemptsStart ==
    [attempt |-> 0, response |-> <<>>, user_agent |-> "Chrome", raised |-> <<>>,
     done |-> FALSE, trace |-> <<Sleep(2)>>]

\* a variant of the iteration below that changes the User-Agent after any
\* status other than 200; which attempts carry which User-Agent depends on the
\* difference
Attempt_SwapsOnAnyStatus(st, outcome) ==
    LET sent == [st EXCEPT !.trace = Append(@, Get(st.user_agent, 15)),
                           !.attempt = @ + 1]
    IN  IF outcome.exc # ""
        THEN IF st.attempt = max_attempts - 1
             THEN [sent EXCEPT !.raised = <<Transport(outcome.exc)>>, !.done = TRUE]
             ELSE [sent EXCEPT !.trace = Append(@, Sleep(2))]
        ELSE IF outcome.status = 200
             THEN [sent EXCEPT !.response = <<outcome.status>>, !.done = TRUE]
        ELSE IF outcome.status = 403
             THEN [sent EXCEPT !.response = <<outcome.status>>,
                               !.user_agent = "Safari",
                               !.trace = Append(@, Sleep(3))]
        ELSE [sent EXCEPT !.response = <<outcome.status>>,
                          !.user_agent = "Safari",
                          !.trace = Append(@, Sleep(1))]

\* a variant of the iteration below without `break` on status 200; that no
\* request follows a 200 depends on the difference
Attempt_NoBreak(st, outcome) ==
    LET sent == [st EXCEPT !.trace = Append(@, Get(st.user_agent, 15)),
                           !.attempt = @ + 1]
    IN  IF outcome.exc # ""
        THEN IF st.attempt = max_attempts - 1
             THEN [sent EXCEPT !.raised = <<Transport(outcome.exc)>>, !.done = TRUE]
             ELSE [sent EXCEPT !.trace = Append(@, Sleep(2))]
        ELSE IF outcome.status = 200
             THEN [sent EXCEPT !.response = <<outcome.status>>]
        ELSE IF outcome.status = 403
             THEN [sent EXCEPT !.response = <<outcome.status>>,
                               !.user_agent = "Safari",
                               !.trace = Append(@, Sleep(3))]
        ELSE [sent EXCEPT !.response = <<outcome.status>>,
                          !.trace = Append(@, Sleep(1))]

\* a variant of the iteration below that re-raises on the first attempt, not
\* on the last; which failure is reported depends on the difference
Attempt_RaisesAtFirst(st, outcome) ==
    LET sent == [st EXCEPT !.trace = Append(@, Get(st.user_agent, 15)),
                           !.attempt = @ + 1]
    IN  IF outcome.exc # ""
        THEN IF st.attempt = 0
             THEN [sent EXCEPT !.raised = <<Transport(outcome.exc)>>, !.done = TRUE]
             ELSE [sent EXCEPT !.trace = Append(@, Sleep(2))]
        ELSE IF outcome.status = 200
             THEN [sent EXCEPT !.response = <<outcome.status>>, !.done = TRUE]
        ELSE IF outcome.status = 403
             THEN [sent EXCEPT !.response = <<outcome.status>>,
                               !.user_agent = "Safari",
                               !.trace = Append(@, Sleep(3))]
        ELSE [sent EXCEPT !.response = <<outcome.status>>,
                          !.trace = Append(@, Sleep(1))]

\* one iteration of `for attempt in range(max_attempts)`
Attempt(st, outcome) ==
    LET sent == [st EXCEPT !.trace = Append(@, Get(st.user_agent, 15)),
                           !.attempt = @ + 1]
    IN  IF outcome.exc # ""
        THEN IF st.attempt = max_attempts - 1
             THEN [sent EXCEPT !.raised = <<Transport(outcome.exc)>>, !.done = TRUE]
             ELSE [sent EXCEPT !.trace = Append(@, Sleep(2))]
        ELSE IF outcome.status = 200
             THEN [sent EXCEPT !.response = <<outcome.status>>, !.done = TRUE]
        ELSE IF outcome.status = 403
             THEN [sent EXCEPT !.response = <<outcome.status>>,
                               !.user_agent = "Safari",
                               !.trace = Append(@, Sleep(3))]
        ELSE [sent EXCEPT !.response = <<outcome.status>>,
                          !.trace = Append(@, Sleep(1))]

RECURSIVE Attempts(_, _)
Attempts(st, outcomes) ==
    IF st.done \/ st.attempt >= max_attempts \/ outcomes = <<>> THEN st
    ELSE Attempts(Attempt(st, Head(outcomes)), Tail(outcomes))

\* `if not response or response.status_code != 200: raise Exception(...)`
\* after the loop, whose message shows response.status_code when the response
\* is true and 'No response' when it is not: [raised, status, trace]
AfterAttempts(st) ==
    IF st.raised # <<>>
    THEN [raised |-> st.raised, status |-> 0, trace |-> st.trace]
    ELSE IF st.response = <<>> \/ ~ResponseOk(st.response[1]) \/ st.response[1] # 200
    THEN [raised |-> <<OtherError("no access",
                                  IF st.response # <<>> /\ ResponseOk(st.response[1])
                                  THEN st.response[1] ELSE 0)>>,
          status |-> 0, trace |-> st.trace]
    ELSE [raised |-> <<>>, status |-> st.response[1], trace |-> st.trace]

\* the branch of the sources protected against bots
FetchHardened(outcomes) == AfterAttempts(Attempts(AttemptsStart, outcomes))

\* a variant of the branch below that sends the request again after a 403;
\* "one request for an ordinary source" depends on the difference
FetchStandard_RetriesOn403(outcome) ==
    LET trace == IF outcome.exc = "" /\ outcome.status = 403
                 THEN <<Get("Chrome", 10), Get("Safari", 10)>>
                 ELSE <<Get("Chrome", 10)>>
    IN  IF outcome.exc # ""
        THEN [raised |-> <<Transport(outcome.exc)>>, status |-> 0, trace |-> trace]
        ELSE IF outcome.status >= 400 /\ outcome.status < 600
        THEN [raised |-> <<HTTPError(outcome.status)>>, status |-> 0, trace |-> trace]
        ELSE [raised |-> <<>>, status |-> outcome.status, trace |-> trace]

\* a variant of the branch below without response.raise_for_status(); which
\* statuses end an ordinary source depends on the difference
FetchStandard_NoRaise(outcome) ==
    LET trace == <<Get("Chrome", 10)>>
    IN  IF outcome.exc # ""
        THEN [raised |-> <<Transport(outcome.exc)>>, status |-> 0, trace |-> trace]
        ELSE [raised |-> <<>>, status |-> outcome.status, trace |-> trace]

\* the branch of the other sources, with response.raise_for_status()
FetchStandard(outcome) ==
    LET trace == <<Get("Chrome", 10)>>
    IN  IF outcome.exc # ""
        THEN [raised |-> <<Transport(outcome.exc)>>, status |-> 0, trace |-> trace]
        ELSE IF outcome.status >= 400 /\ outcome.status < 600
        THEN [raised |-> <<HTTPError(outcome.status)>>, status |-> 0, trace |-> trace]
        ELSE [raised |-> <<>>, status |-> outcome.status, trace |-> trace]

Fetch(source, outcomes) ==
    IF is_hardened(source.url) THEN FetchHardened(outcomes)
    ELSE FetchStandard(Head(outcomes))

----------------------------------------------------------------------------
(* scrape_source: parsing and selecting *)

\* the parser backends, in the order scrape_source tries them
backends == <<"lxml", "html.parser", "html5lib">>

\* a variant of ParseMarkup below that gives up when the first backend fails;
\* that the later backends are tried depends on the difference
ParseMarkup_GivesUpEarly(parsers) ==
    IF parsers[1] THEN [raised |-> FALSE, backend |-> 1, tried |-> <<1>>]
    ELSE [raised |-> TRUE, backend |-> 0, tried |-> <<1>>]

\* parsers[k] says whether the k-th backend builds a tree.  The try blocks are
\* nested: a backend is run in the except clause of the one before it, and
\* the exception of the last one is not caught.  A tree is true whatever it
\* holds, so `if not soup` never raises.  tried lists the backends run.
ParseMarkup(parsers) ==
    IF parsers[1] THEN [raised |-> FALSE, backend |-> 1, tried |-> <<1>>]
    ELSE IF parsers[2] THEN [raised |-> FALSE, backend |-> 2, tried |-> <<1, 2>>]
    ELSE IF parsers[3] THEN [raised |-> FALSE, backend |-> 3, tried |-> <<1, 2, 3>>]
    ELSE [raised |-> TRUE, backend |-> 0, tried |-> <<1, 2, 3>>]

\* A page is a function from selectors to what soup.select does with them on
\* the page: the elements (pool indices) it returns, in document order, or
\* SelectorError when it raises; 0 is no element.  A selector outside the
\* domain matches nothing.
SelectorError == <<0>>

Raises(page, selector) == selector \in DOMAIN page /\ page[selector] = SelectorError

Matches(page, selector) == IF selector \in DOMAIN page THEN page[selector] ELSE <<>>

\* a variant of TrySelector below in which an exception of soup.select ends
\* the loop; that such a selector is skipped depends on the difference
TrySelector_StopsOnError(elements, page, selector) ==
    IF Raises(page, selector) THEN [elements |-> elements, break |-> TRUE]
    ELSE [elements |-> Matches(page, selector),
          break |-> Matches(page, selector) # <<>>]

\* one iteration of a selector loop: elements after it, and whether the loop
\* is left.  An exception of soup.select leaves elements as it was (continue).
TrySelector(elements, page, selector) ==
    IF Raises(page, selector) THEN [elements |-> elements, break |-> FALSE]
    ELSE [elements |-> Matches(page, selector),
          break |-> Matches(page, selector) # <<>>]

\* a selector loop entered with elements (empty at both loops of the code)
RECURSIVE SelectLoop(_, _, _)
SelectLoop(elements, page, selectors) ==
    IF selectors = <<>> THEN elements
    ELSE LET t == TrySelector(elements, page, Head(selectors))
         IN  IF t.break THEN t.elements
             ELSE SelectLoop(t.elements, page, Tail(selectors))

FirstMatch(page, selectors) == SelectLoop(<<>>, page, selectors)

alternative_selectors == <<
    "a[href*=\"news\"]", "a[href*=\"story\"]", "a[href*=\"article\"]",
    ".headline", ".title", ".news-title", ".story-headline",
    "h1 a", "h2 a", "h3 a", "h4 a",
    "[class*=\"headline\"]", "[class*=\"title\"]", "[class*=\"story\"]" >>

SelectElements(page, source) ==
    LET elements == FirstMatch(page, source.selectors)
    IN  IF elements # <<>> THEN elements ELSE FirstMatch(page, alternative_selectors)

----------------------------------------------------------------------------
(* scrape_source as a whole *)

\* The exception scrape_source raises for the exception e caught inside it:
\* kind is the message chosen ("403" or "Forbidden" in str(e), "timeout" in
\* str(e).lower(), any other RequestException, any other Exception), cause and
\* status are those of e, whose text the message of the last two kinds quotes.
WrapError(e) ==
    [kind |-> IF e.cls = "RequestException"
              THEN IF e.text = "http" /\ e.status = 403 THEN "access denied"
                   ELSE IF e.text = "timeout" THEN "timeout"
                   ELSE "network error"
              ELSE "failed to scrape",
     cause |-> e.text, status |-> e.status]

\* a variant of scrape_source below that raises when it has no record to
\* return; that an empty result is no error depends on the difference
scrape_source_RaisesOnEmpty(source, max_headlines, net) ==
    LET f == Fetch(source, net.outcomes)
        p == ParseMarkup(net.parsers)
        loop == ExtractLoop(LoopStart, SelectElements(net.page, source), source,
                            max_headlines)
    IN  IF f.raised # <<>>
        THEN [raised |-> <<WrapError(f.raised[1])>>, headlines |-> <<>>,
              emitted |-> <<>>]
        ELSE IF p.raised
        THEN [raised |-> <<WrapError(OtherError("parser", 0))>>, headlines |-> <<>>,
              emitted |-> <<>>]
        ELSE IF loop.raised
        THEN [raised |-> <<WrapError(OtherError("Invalid IPv6 URL", 0))>>,
              headlines |-> <<>>, emitted |-> loop.headlines]
        ELSE IF loop.headlines = <<>>
        THEN [raised |-> <<WrapError(OtherError("no headlines", 0))>>,
              headlines |-> <<>>, emitted |-> <<>>]
        ELSE [raised |-> <<>>, headlines |-> loop.headlines, emitted |-> loop.headlines]


\* net is what the network and the page hold for this call: the outcomes of
\* the successive requests, the parser backends that work, the page.
\* emitted is what headline_found has emitted when the call ends.
scrape_source(source, max_headlines, net) ==
    LET f == Fetch(source, net.outcomes)
        p == ParseMarkup(net.parsers)
        loop == ExtractLoop(LoopStart, SelectElements(net.page, source), source,
                            max_headlines)
    IN  IF f.raised # <<>>
        THEN [raised |-> <<WrapError(f.raised[1])>>, headlines |-> <<>>,
              emitted |-> <<>>]
        ELSE IF p.raised
        THEN [raised |-> <<WrapError(OtherError("parser", 0))>>, headlines |-> <<>>,
              emitted |-> <<>>]
        ELSE IF loop.raised
        THEN [raised |-> <<WrapError(OtherError("Invalid IPv6 URL", 0))>>,
              headlines |-> <<>>, emitted |-> loop.headlines]
        ELSE [raised |-> <<>>, headlines |-> loop.headlines, emitted |-> loop.headlines]

----------------------------------------------------------------------------
(* What the network holds when the worker scrapes a source *)

NetInput(outcomes, parsers, page) ==
    [outcomes |-> outcomes, parsers |-> parsers, page |-> page]

\* a page whose headings and heading links hold two headlines
PageHeadlines ==
    ("h3" :> <<3, 4>>) @@ ("h2 a" :> <<6>>) @@ ("h3 a" :> <<4>>)

\* a page on which nothing is selected
PageEmpty == <<>>

\* a page whose selected elements all fail the tests of the loop
PageRejected == ("h3" :> <<1, 7>>)

\* a page whose second selected element has a link urljoin rejects
PageBadLink == ("h3" :> <<4, 11>>) @@ ("h2 a" :> <<4, 11>>)

AllParsers == <<TRUE, TRUE, TRUE>>

NoParser == <<FALSE, FALSE, FALSE>>

\* The inputs drawn when the worker scrapes a source: every source may answer
\* with a page of headlines; an ordinary source may also time out or send
\* markup no parser accepts or a page whose elements are all skipped, a protected one may time out on every attempt or
\* send a page on which nothing is selected, and the custom one may send that
\* page or one with a link urljoin rejects.
NetInputs(source) ==
    {NetInput(<<Resp(200)>>, AllParsers, PageHeadlines)}
    \cup (IF source.name = "Custom URL"
          THEN {NetInput(<<Resp(200)>>, AllParsers, PageBadLink),
                NetInput(<<Resp(200)>>, <<FALSE, TRUE, TRUE>>, PageEmpty)}
          ELSE IF is_hardened(source.url)
          THEN {NetInput(<<Exc("timeout"), Exc("timeout"), Exc("timeout")>>,
                         AllParsers, PageHeadlines),
                NetInput(<<Resp(200)>>, <<FALSE, TRUE, TRUE>>, PageEmpty)}
          ELSE {NetInput(<<Exc("timeout")>>, AllParsers, PageHeadlines),
                NetInput(<<Resp(200)>>, NoParser, PageHeadlines),
                NetInput(<<Resp(200)>>, AllParsers, PageRejected)})

----------------------------------------------------------------------------
(* ScraperThread *)

max_headlines_spin == 50

\* time.sleep(0.5) after a source that succeeded, in milliseconds
request_pause_ms == 500

\* ScraperThread(sources, max_headlines) followed by start().  aliased says
\* that sources is the very list NewsScraperApp.news_sources.  The fields
\* after all_headlines are history: the signals emitted, the indices of the
\* sources whose scrape_source call began, what each call that ended returned
\* (ok, headlines) with the input net it met and the time.sleep that followed
\* it, and where run() was when stop() was first called.
NewThread(sources, aliased, max_headlines) ==
    [sources |-> sources, aliased |-> aliased, max_headlines |-> max_headlines,
     is_running |-> TRUE, alive |-> TRUE, pc |-> "loop", i |-> 0,
     total_sources |-> Len(sources), all_headlines |-> <<>>,
     events |-> <<>>, started |-> <<>>, results |-> <<>>, stopped_at |-> <<>>]

\* a thread object nothing refers to any more
Freed ==
    [NewThread(<<>>, FALSE, 0) EXCEPT !.is_running = FALSE, !.alive = FALSE,
                                      !.pc = "freed"]

\* self.sources of thread t
SourcesOf(t) == IF threads[t].aliased THEN news_sources ELSE threads[t].sources

\* a variant of Progress below that counts the sources still to come; that
\* the values never decrease depends on the difference
Progress_CountsRemaining(i, total_sources) == ((total_sources - i) * 100) \div total_sources

\* int((i + 1) / total_sources * 100), i counted from 0; the float result
\* equals the integer quotient for every total_sources below 50
Progress(i, total_sources) == ((i + 1) * 100) \div total_sources

HeadlineFound(data) == [sig |-> "headline_found", data |-> data]

ProgressUpdate(value) == [sig |-> "progress_update", value |-> value]

ErrorOccurred(name, error) == [sig |-> "error_occurred", source |-> name, error |-> error]

FinishedScraping(all_headlines) == [sig |-> "finished_scraping", data |-> all_headlines]

\* scrape_source(source, max_headlines_spin, net) for every source a thread
\* can be given and every input drawn for it, computed once
ScrapeResults ==
    [source \in KnownSources |->
        [net \in NetInputs(source) |-> scrape_source(source, max_headlines_spin, net)]]

\* the call self.scrape_source(source) of a thread created with max_headlines
ScrapeCall(source, max_headlines, net) ==
    LET r == IF max_headlines = max_headlines_spin THEN ScrapeResults[source][net]
             ELSE scrape_source(source, max_headlines, net)
    IN  [raised |-> r.raised, headlines |-> r.headlines, emitted |-> r.emitted,
         net |-> net]

\* a variant of the head of the loop below without `if not self.is_running:
\* break`; what stop() brings about depends on the difference
LoopHead_IgnoresStop(t) ==
    /\ t \in DOMAIN threads
    /\ threads[t].alive /\ threads[t].pc = "loop"
    /\ threads' = [threads EXCEPT ![t] =
           IF threads[t].i < Len(SourcesOf(t))
           THEN [@ EXCEPT !.pc = "scrape", !.started = Append(@, threads[t].i + 1)]
           ELSE [@ EXCEPT !.pc = "emit"]]
    /\ UNCHANGED <<timeout_spin, delay_spin, news_sources, scrape_btn, stop_btn,
                   scraper_thread, timer_active, pending, waiting, warnings, rejected,
                   ex>>

\* run(): the head of the loop, `for i, source in enumerate(self.sources)` and
\* `if not self.is_running: break`
LoopHead(t) ==
    /\ t \in DOMAIN threads
    /\ threads[t].alive /\ threads[t].pc = "loop"
    /\ threads' = [threads EXCEPT ![t] =
           IF threads[t].i < Len(SourcesOf(t)) /\ threads[t].is_running
           THEN [@ EXCEPT !.pc = "scrape", !.started = Append(@, threads[t].i + 1)]
           ELSE [@ EXCEPT !.pc = "emit"]]
    /\ UNCHANGED <<timeout_spin, delay_spin, news_sources, scrape_btn, stop_btn,
                   scraper_thread, timer_active, pending, waiting, warnings, rejected,
                   ex>>

\* a variant of the body of the loop below in which the except clause leaves
\* the loop; the isolation of a failure depends on the difference
AfterScrape_LeavesOnError(th, name, r) ==
    IF r.raised = <<>>
    THEN [th EXCEPT !.all_headlines = @ \o r.headlines,
                    !.events = @ \o [k \in 1..Len(r.emitted) |-> HeadlineFound(r.emitted[k])]
                                 \o <<ProgressUpdate(Progress(th.i, th.total_sources))>>,
                    !.results = Append(@, [ok |-> TRUE, headlines |-> r.headlines,
                                         net |-> r.net, slept_ms |-> request_pause_ms]),
                    !.i = @ + 1, !.pc = "loop"]
    ELSE [th EXCEPT !.events = @ \o [k \in 1..Len(r.emitted) |-> HeadlineFound(r.emitted[k])]
                                 \o <<ErrorOccurred(name, r.raised[1])>>,
                    !.results = Append(@, [ok |-> FALSE, headlines |-> <<>>,
                                         net |-> r.net, slept_ms |-> 0]),
                    !.i = @ + 1, !.pc = "emit"]

\* a variant of the body of the loop below in which the source that failed is
\* tried again; "each source at most once" depends on the difference
AfterScrape_RetriesOnError(th, name, r) ==
    IF r.raised = <<>>
    THEN [th EXCEPT !.all_headlines = @ \o r.headlines,
                    !.events = @ \o [k \in 1..Len(r.emitted) |-> HeadlineFound(r.emitted[k])]
                                 \o <<ProgressUpdate(Progress(th.i, th.total_sources))>>,
                    !.results = Append(@, [ok |-> TRUE, headlines |-> r.headlines,
                                         net |-> r.net, slept_ms |-> request_pause_ms]),
                    !.i = @ + 1, !.pc = "loop"]
    ELSE [th EXCEPT !.events = @ \o [k \in 1..Len(r.emitted) |-> HeadlineFound(r.emitted[k])]
                                 \o <<ErrorOccurred(name, r.raised[1])>>,
                    !.results = Append(@, [ok |-> FALSE, headlines |-> <<>>,
                                         net |-> r.net, slept_ms |-> 0]),
                    !.pc = "loop"]

\* the thread after the body of the loop for its source i + 1, whose
\* scrape_source call ended as r
AfterScrape(th, name, r) ==
    IF r.raised = <<>>
    THEN [th EXCEPT !.all_headlines = @ \o r.headlines,
                    !.events = @ \o [k \in 1..Len(r.emitted) |-> HeadlineFound(r.emitted[k])]
                                 \o <<ProgressUpdate(Progress(th.i, th.total_sources))>>,
                    !.results = Append(@, [ok |-> TRUE, headlines |-> r.headlines,
                                         net |-> r.net, slept_ms |-> request_pause_ms]),
                    !.i = @ + 1, !.pc = "loop"]
    ELSE [th EXCEPT !.events = @ \o [k \in 1..Len(r.emitted) |-> HeadlineFound(r.emitted[k])]
                                 \o <<ErrorOccurred(name, r.raised[1])>>,
                    !.results = Append(@, [ok |-> FALSE, headlines |-> <<>>,
                                         net |-> r.net, slept_ms |-> 0]),
                    !.i = @ + 1, !.pc = "loop"]

\* run(): the body of the loop, the try statement around scrape_source with
\* its time.sleep(0.5), for the network input net
Scrape(t) ==
    /\ t \in DOMAIN threads
    /\ threads[t].alive /\ threads[t].pc = "scrape"
    /\ LET source == SourcesOf(t)[threads[t].i + 1]
       IN  \E net \in NetInputs(source) :
               threads' = [threads EXCEPT ![t] =
                   AfterScrape(@, source.name,
                               ScrapeCall(source, threads[t].max_headlines, net))]
    /\ UNCHANGED <<timeout_spin, delay_spin, news_sources, scrape_btn, stop_btn,
                   scraper_thread, timer_active, pending, waiting, warnings, rejected,
                   ex>>

\* run(): self.finished_scraping.emit(all_headlines); the signal is queued to
\* the GUI thread
EmitFinished(t) ==
    /\ t \in DOMAIN threads
    /\ threads[t].alive /\ threads[t].pc = "emit"
    /\ threads' = [threads EXCEPT ![t] =
           [@ EXCEPT !.events = Append(@, FinishedScraping(threads[t].all_headlines)),
                     !.pc = "return"]]
    /\ pending' = Append(pending, t)
    /\ UNCHANGED <<timeout_spin, delay_spin, news_sources, scrape_btn, stop_btn,
                   scraper_thread, timer_active, waiting, warnings, rejected, ex>>

\* run() returns: QThread.isRunning() becomes false
ThreadExit(t) ==
    /\ t \in DOMAIN threads
    /\ threads[t].alive /\ threads[t].pc = "return"
    /\ threads' = [threads EXCEPT ![t] = [@ EXCEPT !.alive = FALSE, !.pc = "done"]]
    /\ UNCHANGED <<timeout_spin, delay_spin, news_sources, scrape_btn, stop_btn,
                   scraper_thread, timer_active, pending, waiting, warnings, rejected,
                   ex>>

\* ScraperThread.stop(), with the history of where run() was
Stop(th) ==
    [th EXCEPT !.is_running = FALSE,
               !.stopped_at = IF @ = <<>>
                              THEN <<[pc |-> th.pc, i |-> th.i,
                                      all_headlines |-> th.all_headlines]>>
                              ELSE @]

----------------------------------------------------------------------------
(* NewsScraperApp *)

\* the items of source_combo, filled from news_sources when the window is built
ComboItems == {"All Sources"} \cup {InitialCatalog[k].name : k \in 1..Len(InitialCatalog)}

\* the thread objects still referred to once scraper_thread is reassigned
Collect(ths) == [t \in DOMAIN ths |-> IF ths[t].alive THEN ths[t] ELSE Freed]

\* a variant of the test below that never finds the worker running; "at most
\* one worker" depends on the difference
isRunning_Never == FALSE

\* `self.scraper_thread and self.scraper_thread.isRunning()`
isRunning == scraper_thread # 0 /\ threads[scraper_thread].alive

\* start_scraping(), called by who ("button" or "timer") with the combo box
\* showing combo and the custom URL field holding custom_url
start_scraping(who, combo, custom_url) ==
    IF isRunning
    THEN /\ rejected' = rejected \cup {who}
         /\ UNCHANGED <<timeout_spin, delay_spin, news_sources, scrape_btn, stop_btn,
                        scraper_thread, timer_active, threads, pending, waiting,
                        warnings, ex>>
    ELSE LET all == combo = "All Sources"
             chosen == IF all THEN news_sources
                       ELSE SelectSeq(news_sources, LAMBDA s : s.name = combo)
             selected_sources == IF custom_url # <<>>
                                 THEN Append(chosen, CustomSource(custom_url))
                                 ELSE chosen
         IN  \* with "All Sources", selected_sources is news_sources itself
             /\ news_sources' = IF all THEN selected_sources ELSE news_sources
             /\ IF selected_sources = <<>>
                THEN /\ warnings' = warnings + 1
                     /\ UNCHANGED <<scrape_btn, stop_btn, scraper_thread, threads>>
                ELSE /\ scrape_btn' = FALSE
                     /\ stop_btn' = TRUE
                     /\ threads' = Append(Collect(threads),
                                          NewThread(selected_sources, all,
                                                    max_headlines_spin))
                     /\ scraper_thread' = Len(threads) + 1
                     /\ UNCHANGED warnings
             /\ rejected' = {}
             /\ UNCHANGED <<timeout_spin, delay_spin, timer_active, pending, waiting,
                            ex>>

\* whether another ScraperThread may be created within the bound
MayStart ==
    \/ Len(threads) < MaxRuns
    \/ (scraper_thread # 0 /\ threads[scraper_thread].alive)

\* the Start button is clicked
ClickStart ==
    /\ waiting = 0 /\ scrape_btn /\ MayStart
    /\ \E combo \in ComboItems, custom_url \in CustomUrls :
           start_scraping("button", combo, custom_url)

\* auto_refresh_timer.timeout
AutoRefresh ==
    /\ waiting = 0 /\ timer_active /\ MayStart
    /\ \E combo \in ComboItems, custom_url \in CustomUrls :
           start_scraping("timer", combo, custom_url)

\* save_settings(): the timer is started or stopped as the check box says
SaveSettings ==
    /\ waiting = 0
    /\ \E auto_refresh_check \in BOOLEAN : timer_active' = auto_refresh_check
    /\ UNCHANGED <<timeout_spin, delay_spin, news_sources, scrape_btn, stop_btn,
                   scraper_thread, threads, pending, waiting, warnings, rejected, ex>>

\* the values the two spin boxes of the settings tab are given
SpinChoices == {[timeout |-> 10, delay |-> 1], [timeout |-> 5, delay |-> 0]}

\* the user changes the request timeout and the delay between requests
ChangeSpins ==
    /\ waiting = 0
    /\ \E v \in SpinChoices : timeout_spin' = v.timeout /\ delay_spin' = v.delay
    /\ UNCHANGED <<news_sources, scrape_btn, stop_btn, scraper_thread, timer_active,
                   threads, pending, waiting, warnings, rejected, ex>>

\* the Stop button is clicked: stop_scraping() up to scraper_thread.wait()
ClickStop ==
    /\ waiting = 0 /\ stop_btn
    /\ IF scraper_thread # 0
       THEN /\ threads' = [threads EXCEPT ![scraper_thread] = Stop(@)]
            /\ waiting' = scraper_thread
            /\ UNCHANGED <<scrape_btn, stop_btn>>
       ELSE /\ scrape_btn' = TRUE
            /\ stop_btn' = FALSE
            /\ UNCHANGED <<threads, waiting>>
    /\ UNCHANGED <<timeout_spin, delay_spin, news_sources, scraper_thread, timer_active,
                   pending, warnings, rejected, ex>>

\* stop_scraping() from the return of wait(), which is when run() has returned
StopReturn ==
    /\ waiting # 0 /\ ~threads[waiting].alive
    /\ scrape_btn' = TRUE
    /\ stop_btn' = FALSE
    /\ waiting' = 0
    /\ UNCHANGED <<timeout_spin, delay_spin, news_sources, scraper_thread, timer_active,
                   threads, pending, warnings, rejected, ex>>

\* scraping_finished(headlines), the slot of the queued finished_scraping signal
scraping_finished ==
    /\ waiting = 0 /\ pending # <<>>
    /\ pending' = Tail(pending)
    /\ scrape_btn' = TRUE
    /\ stop_btn' = FALSE
    /\ UNCHANGED <<timeout_spin, delay_spin, news_sources, scraper_thread, timer_active,
                   threads, waiting, warnings, rejected, ex>>

\* the extraction loop is not being stepped
ExIdle == [pc |-> "idle"]

Init ==
    /\ news_sources = InitialCatalog
    /\ scrape_btn = TRUE
    /\ stop_btn = FALSE
    /\ scraper_thread = 0
    /\ timer_active = FALSE
    /\ timeout_spin = 10
    /\ delay_spin = 1
    /\ threads = <<>>
    /\ pending = <<>>
    /\ waiting = 0
    /\ warnings = 0
    /\ rejected = {}
    /\ ex = ExIdle

Next ==
    \/ ClickStart
    \/ AutoRefresh
    \/ SaveSettings
    \/ ChangeSpins
    \/ ClickStop
    \/ StopReturn
    \/ scraping_finished
    \/ \E t \in 1..MaxRuns : LoopHead(t)
    \/ \E t \in 1..MaxRuns : Scrape(t)
    \/ \E t \in 1..MaxRuns : EmitFinished(t)
    \/ \E t \in 1..MaxRuns : ThreadExit(t)

Spec == Init /\ [][Next]_vars

----------------------------------------------------------------------------
(* The extraction loop of scrape_source on its own: Init draws the selected *)
(* elements, the source and max_headlines, and the loop is stepped one      *)
(* element at a time.                                                       *)

\* the sequences over S of length at most n
SeqUpTo(S, n) == UNION {[1..k -> S] : k \in 0..n}

\* pass counts the passes over the elements.  decisions is history: for every element that reached the tests of the loop,
\* its cleaned title, the titles seen before it, whether it passed the tests
\* (its title joined processed_titles) and whether a record was emitted for it
InitExtract ==
    /\ news_sources = InitialCatalog
    /\ scrape_btn = TRUE
    /\ stop_btn = FALSE
    /\ scraper_thread = 0
    /\ timer_active = FALSE
    /\ timeout_spin = 10
    /\ delay_spin = 1
    /\ threads = <<>>
    /\ pending = <<>>
    /\ waiting = 0
    /\ warnings = 0
    /\ rejected = {}
    /\ \E elements \in SeqUpTo(Elements, MaxElems), source \in KnownSources,
          max_headlines \in 1..MaxHeadlines :
           ex = [pc |-> "loop", elements |-> elements, source |-> source,
                 max_headlines |-> max_headlines, pos |-> 1, st |-> LoopStart,
                 decisions |-> <<>>, pass |-> 1, first |-> <<>>]

\* one iteration of the loop, on the element at pos
ExtractElement ==
    /\ ex.pc = "loop"
    /\ ex.pos <= Len(ex.elements)
    /\ ~ex.st.stopped /\ ~ex.st.raised
    /\ LET e == ex.elements[ex.pos]
           new == ExtractStep(ex.st, e, ex.source, ex.max_headlines)
       IN  ex' = [ex EXCEPT
               !.st = new,
               !.pos = @ + 1,
               !.decisions =
                   IF new.stopped THEN @
                   ELSE Append(@, [title |-> Titles[e],
                                   seen |-> ex.st.processed_titles,
                                   passed |-> new.processed_titles # ex.st.processed_titles,
                                   emitted |-> Len(new.headlines) > Len(ex.st.headlines)])]
    /\ UNCHANGED <<timeout_spin, delay_spin, news_sources, scrape_btn, stop_btn,
                   scraper_thread, timer_active, threads, pending, waiting, warnings,
                   rejected>>

\* the loop ends: the elements are exhausted or `break` was taken, and
\* scrape_source returns headlines; or urljoin raised
ExtractEnd ==
    /\ ex.pc = "loop"
    /\ ex.pos > Len(ex.elements) \/ ex.st.stopped \/ ex.st.raised
    /\ ex' = [ex EXCEPT !.pc = IF ex.st.raised THEN "raised" ELSE "returned"]
    /\ UNCHANGED <<timeout_spin, delay_spin, news_sources, scrape_btn, stop_btn,
                   scraper_thread, timer_active, threads, pending, waiting, warnings,
                   rejected>>

\* the same elements are given to the loop a second time; first keeps what
\* the first pass ended with
ExtractAgain ==
    /\ ex.pc \in {"returned", "raised"}
    /\ ex.pass = 1
    /\ ex' = [ex EXCEPT !.pc = "loop", !.pass = 2, !.pos = 1, !.decisions = <<>>,
                        !.first = <<[raised |-> ex.st.raised,
                                     headlines |-> ex.st.headlines]>>,
                        !.st = FreshLocals(ex.st)]
    /\ UNCHANGED <<timeout_spin, delay_spin, news_sources, scrape_btn, stop_btn,
                   scraper_thread, timer_active, threads, pending, waiting, warnings,
                   rejected>>

NextExtract == ExtractElement \/ ExtractEnd \/ ExtractAgain

SpecExtract == InitExtract /\ [][NextExtract]_vars

----------------------------------------------------------------------------
(* The fetch of scrape_source on its own: Init draws the source and what    *)
(* each of its requests would meet; the attempt loop of the sources         *)
(* protected against bots is stepped one attempt at a time, stop() may be   *)
(* called between two steps, and a second call for the next source of the   *)
(* run may follow.                                                          *)

HardenedSources ==
    {PreconfiguredSources[k] : k \in {j \in 1..Len(PreconfiguredSources) :
                                         is_hardened(PreconfiguredSources[j].url)}}

\* what a request can meet
Outcomes ==
    {Resp(200), Resp(204), Resp(403), Resp(404), Resp(429), Resp(500),
     Exc("timeout"), Exc("connection")}

\* the sources whose fetch is stepped: the protected ones and an ordinary one
FetchSources == HardenedSources \cup {PreconfiguredSources[1]}

\* what the requests of a call for source would meet, one outcome per request
\* the call can send
OutcomesFor(source) ==
    IF is_hardened(source.url) THEN [1..max_attempts -> Outcomes] ELSE [1..1 -> Outcomes]

\* session = requests.Session() with the default headers, at the beginning of
\* every call; a protected source then sleeps 2 seconds
SessionStart(source) ==
    IF is_hardened(source.url) THEN AttemptsStart ELSE [AttemptsStart EXCEPT !.trace = <<>>]

\* the call for a source begins.  call counts the calls of the run;
\* prev_agent is history: the User-Agent the session of the call before had at
\* its end; stopped_at is history: where the call was when stop() was called
NewCall(call, prev_agent, source, outcomes) ==
    [pc |-> "attempts", call |-> call, prev_agent |-> prev_agent, source |-> source,
     outcomes |-> outcomes, st |-> SessionStart(source), fetched |-> <<>>,
     error |-> <<>>, is_running |-> TRUE, stopped_at |-> <<>>]

InitFetch ==
    /\ news_sources = InitialCatalog
    /\ scrape_btn = TRUE
    /\ stop_btn = FALSE
    /\ scraper_thread = 0
    /\ timer_active = FALSE
    /\ timeout_spin = 10
    /\ delay_spin = 1
    /\ threads = <<>>
    /\ pending = <<>>
    /\ waiting = 0
    /\ warnings = 0
    /\ rejected = {}
    /\ \E source \in FetchSources :
           \E outcomes \in OutcomesFor(source) : ex = NewCall(1, <<>>, source, outcomes)

\* one iteration of the attempt loop of a protected source
FetchAttempt ==
    /\ ex.pc = "attempts"
    /\ is_hardened(ex.source.url)
    /\ ~ex.st.done /\ ex.st.attempt < max_attempts
    /\ ex' = [ex EXCEPT !.st = Attempt(ex.st, ex.outcomes[ex.st.attempt + 1])]
    /\ UNCHANGED <<timeout_spin, delay_spin, news_sources, scrape_btn, stop_btn,
                   scraper_thread, timer_active, threads, pending, waiting, warnings,
                   rejected>>

\* after the loop: the response is kept, or scrape_source raises error
FetchEnd ==
    /\ ex.pc = "attempts"
    /\ is_hardened(ex.source.url)
    /\ ex.st.done \/ ex.st.attempt >= max_attempts
    /\ LET f == AfterAttempts(ex.st)
       IN  ex' = [ex EXCEPT !.pc = "ended",
                            !.fetched = <<f>>,
                            !.error = IF f.raised # <<>> THEN <<WrapError(f.raised[1])>>
                                      ELSE <<>>]
    /\ UNCHANGED <<timeout_spin, delay_spin, news_sources, scrape_btn, stop_btn,
                   scraper_thread, timer_active, threads, pending, waiting, warnings,
                   rejected>>

\* the fetch of an ordinary source: session.get and response.raise_for_status()
FetchOnce ==
    /\ ex.pc = "attempts"
    /\ ~is_hardened(ex.source.url)
    /\ LET f == FetchStandard(ex.outcomes[1])
       IN  ex' = [ex EXCEPT !.pc = "ended",
                            !.st = [@ EXCEPT !.trace = @ \o f.trace, !.attempt = 1],
                            !.fetched = <<f>>,
                            !.error = IF f.raised # <<>> THEN <<WrapError(f.raised[1])>>
                                      ELSE <<>>]
    /\ UNCHANGED <<timeout_spin, delay_spin, news_sources, scrape_btn, stop_btn,
                   scraper_thread, timer_active, threads, pending, waiting, warnings,
                   rejected>>

\* stop() is called while the call is under way
FetchStop ==
    /\ ex.pc = "attempts"
    /\ ex.is_running
    /\ ex' = [ex EXCEPT !.is_running = FALSE,
                        !.stopped_at = <<[attempt |-> ex.st.attempt, done |-> ex.st.done]>>]
    /\ UNCHANGED <<timeout_spin, delay_spin, news_sources, scrape_btn, stop_btn,
                   scraper_thread, timer_active, threads, pending, waiting, warnings,
                   rejected>>

\* run() goes on to the next source of the run, and scrape_source is called
\* for it
FetchNext ==
    /\ ex.pc = "ended"
    /\ ex.is_running
    /\ ex.call = 1
    /\ \E source \in FetchSources :
           \E outcomes \in OutcomesFor(source) :
               ex' = NewCall(2, <<ex.st.user_agent>>, source, outcomes)
    /\ UNCHANGED <<timeout_spin, delay_spin, news_sources, scrape_btn, stop_btn,
                   scraper_thread, timer_active, threads, pending, waiting, warnings,
                   rejected>>

NextFetch == FetchAttempt \/ FetchEnd \/ FetchOnce \/ FetchStop \/ FetchNext

SpecFetch == InitFetch /\ [][NextFetch]_vars

----------------------------------------------------------------------------
(* Parsing and selecting of scrape_source on their own: Init draws the      *)
(* source, the backends that build a tree and what soup.select does with    *)
(* the selectors on the page.                                               *)

\* the sources whose pages are drawn; "h2 a" is a selector of the second one
\* and of the fallback list
PageSources == {PreconfiguredSources[1], PreconfiguredSources[2]}

\* the selectors the drawn pages tell apart: two of the source, two of the
\* fallback list
PageSelectors(source) ==
    <<source.selectors[1], source.selectors[2], alternative_selectors[4],
      alternative_selectors[9]>>

\* what soup.select may do with a selector: 0 no match, 1 it raises, 2 it
\* returns the two elements only this selector matches
SelectorOutcomes == 0..2

PageOf(source, does) ==
    [selector \in {PageSelectors(source)[k] : k \in 1..Len(PageSelectors(source))} |->
        LET k == CHOOSE j \in 1..Len(PageSelectors(source)) :
                     PageSelectors(source)[j] = selector
        IN  IF does[k] = 0 THEN <<>>
            ELSE IF does[k] = 1 THEN SelectorError
            ELSE <<k, k + 1>>]

Pages(source) ==
    {PageOf(source, does) : does \in [1..Len(PageSelectors(source)) -> SelectorOutcomes]}

InitPage ==
    /\ news_sources = InitialCatalog
    /\ scrape_btn = TRUE
    /\ stop_btn = FALSE
    /\ scraper_thread = 0
    /\ timer_active = FALSE
    /\ timeout_spin = 10
    /\ delay_spin = 1
    /\ threads = <<>>
    /\ pending = <<>>
    /\ waiting = 0
    /\ warnings = 0
    /\ rejected = {}
    /\ \E source \in PageSources :
           \E page \in Pages(source), parsers \in [1..Len(backends) -> BOOLEAN] :
               ex = [pc |-> "parse", source |-> source, page |-> page,
                     parsers |-> parsers, parsed |-> <<>>, elements |-> <<>>,
                     error |-> <<>>]

\* BeautifulSoup(response.content, ...) through the chain of backends
PageParse ==
    /\ ex.pc = "parse"
    /\ LET p == ParseMarkup(ex.parsers)
       IN  ex' = [ex EXCEPT
               !.pc = IF p.raised THEN "ended" ELSE "select",
               !.parsed = <<p>>,
               !.error = IF p.raised THEN <<WrapError(OtherError("parser", 0))>>
                         ELSE <<>>]
    /\ UNCHANGED <<timeout_spin, delay_spin, news_sources, scrape_btn, stop_btn,
                   scraper_thread, timer_active, threads, pending, waiting, warnings,
                   rejected>>
\* the two selector loops
PageSelect ==
    /\ ex.pc = "select"
    /\ ex' = [ex EXCEPT !.pc = "ended",
                        !.elements = SelectElements(ex.page, ex.source)]
    /\ UNCHANGED <<timeout_spin, delay_spin, news_sources, scrape_btn, stop_btn,
                   scraper_thread, timer_active, threads, pending, waiting, warnings,
                   rejected>>
NextPage == PageParse \/ PageSelect

SpecPage == InitPage /\ [][NextPage]_vars

----------------------------------------------------------------------------
(* Properties of a run of the worker (specification Spec) *)

\* the thread objects that still exist
Threads == {t \in DOMAIN threads : threads[t].pc # "freed"}

\* run() of thread t has emitted finished_scraping
Terminated(t) == threads[t].pc \in {"return", "done"}

\* stop() was never called on thread t
NeverStopped(t) == threads[t].stopped_at = <<>>

SignalsOf(events, sig) == SelectSeq(events, LAMBDA e : e.sig = sig)

\* the list carried by the last signal thread t emitted
Payload(t) == threads[t].events[Len(threads[t].events)].data

\* the records the scrape_source calls of results returned, in order
RECURSIVE Returned(_)
Returned(results) ==
    IF results = <<>> THEN <<>>
    ELSE (IF Head(results).ok THEN Head(results).headlines ELSE <<>>)
         \o Returned(Tail(results))

\* the indices of the scrape_source calls of results that raised
Failures(results) == {k \in 1..Len(results) : ~results[k].ok}

\* the k-th smallest element of the set S of numbers
RECURSIVE Nth(_, _)
Nth(S, k) ==
    LET m == CHOOSE x \in S : \A y \in S : x <= y
    IN  IF k = 1 THEN m ELSE Nth(S \ {m}, k - 1)

IsPrefix(s, t) == Len(s) <= Len(t) /\ SubSeq(t, 1, Len(s)) = s

\* C1: every source whose scrape_source call raised has exactly one
\* error_occurred signal, in the order of the failures and with its name; the
\* loop goes on after a failure, so a run that was not stopped has called
\* scrape_source for every source of its list when it ends; and the list
\* finished_scraping carries is made of the records the calls that succeeded
\* returned, in order, with nothing of a call that raised.
C1_FailureIsolated ==
    \A t \in Threads :
        LET th == threads[t]
            errors == SignalsOf(th.events, "error_occurred")
        IN  /\ Len(errors) = Cardinality(Failures(th.results))
            /\ \A k \in 1..Len(errors) :
                   errors[k].source = SourcesOf(t)[Nth(Failures(th.results), k)].name
            /\ th.all_headlines = Returned(th.results)
            /\ \A k \in Failures(th.results) :
                   k < Len(SourcesOf(t)) /\ th.is_running /\ th.pc = "loop"
                       => th.i >= k
            /\ Terminated(t) =>
                   /\ Payload(t) = Returned(th.results)
                   /\ NeverStopped(t) => Len(th.results) = Len(SourcesOf(t))

\* a run over three sources has ended: the first timed out, the two others
\* returned records, and there is one error signal
C1_Witness ==
    \E t \in Threads :
        /\ Terminated(t)
        /\ Len(threads[t].results) = 3
        /\ Failures(threads[t].results) = {1}
        /\ threads[t].results[2].headlines # <<>>
        /\ threads[t].results[3].headlines # <<>>
        /\ Len(SignalsOf(threads[t].events, "error_occurred")) = 1
        /\ SignalsOf(threads[t].events, "error_occurred")[1].error.kind = "timeout"
        /\ Len(Payload(t)) = Len(threads[t].results[2].headlines)
                             + Len(threads[t].results[3].headlines)

\* the records headline_found announced, in order
Announced(events) ==
    LET found == SignalsOf(events, "headline_found")
    IN  [k \in 1..Len(found) |-> found[k].data]

\* C2: when a run has ended, finished_scraping was emitted exactly once, it
\* is the last signal of the run, and it carries all the records accepted in
\* the run (those headline_found announced), in the order they were accepted.
C2_TerminalCarriesAccepted ==
    \A t \in Threads :
        Terminated(t) =>
            /\ Len(SignalsOf(threads[t].events, "finished_scraping")) = 1
            /\ threads[t].events[Len(threads[t].events)].sig = "finished_scraping"
            /\ Payload(t) = Announced(threads[t].events)

\* C3: when stop() is called while run() is between two calls of
\* scrape_source, k calls having ended, no further call begins and the list
\* finished_scraping carries is what the first k calls returned; wherever
\* stop() is called, the records gathered before it stay in the list.
C3_CancelBetweenSources ==
    \A t \in Threads :
        LET th == threads[t]
        IN  th.stopped_at # <<>> =>
                LET at == th.stopped_at[1]
                IN  /\ IsPrefix(at.all_headlines, th.all_headlines)
                    /\ Terminated(t) => IsPrefix(at.all_headlines, Payload(t))
                    /\ at.pc = "loop" =>
                           /\ th.started = [k \in 1..at.i |-> k]
                           /\ Len(th.results) = at.i
                           /\ Terminated(t) =>
                                  Payload(t) = Returned(SubSeq(th.results, 1, at.i))

\* a run over several sources was stopped after its first source, which had
\* returned records, and has ended with those records only
C3_Witness ==
    \E t \in Threads :
        /\ Terminated(t)
        /\ threads[t].stopped_at # <<>>
        /\ threads[t].stopped_at[1].pc = "loop"
        /\ threads[t].stopped_at[1].i = 1
        /\ Len(SourcesOf(t)) > 1
        /\ Payload(t) # <<>>
        /\ Payload(t) = threads[t].results[1].headlines

\* C4: a run that was not stopped and has ended has emitted one
\* progress_update per source, the k-th with the value of k sources out of n,
\* the last with 100, whether the sources succeeded or failed.
C4_ProgressAfterEverySource ==
    \A t \in Threads :
        Terminated(t) /\ NeverStopped(t) =>
            LET n == threads[t].total_sources
                progress == SignalsOf(threads[t].events, "progress_update")
            IN  /\ Len(progress) = n
                /\ \A k \in 1..Len(progress) : progress[k].value = (k * 100) \div n
                /\ progress[n].value = 100

\* C5: at most one worker runs at a time, and a call of start_scraping that
\* finds the worker running, from the button or from the timer, changes
\* nothing of the application or of the worker.
C5_AtMostOneWorker ==
    /\ [](Cardinality({t \in DOMAIN threads : threads[t].alive}) <= 1)
    /\ [][rejected' # rejected /\ rejected' # {} =>
              /\ \E t \in DOMAIN threads : threads[t].alive
              /\ UNCHANGED <<news_sources, scrape_btn, stop_btn, scraper_thread,
                             timer_active, timeout_spin, delay_spin, threads, pending,
                             waiting, warnings>>]_vars

\* the worker is running, and start_scraping has returned at once when called
\* by the timer and when called by the button
C5_Witness ==
    /\ rejected = {"button", "timer"}
    /\ \E t \in DOMAIN threads : threads[t].alive /\ threads[t].pc = "scrape"

\* start_scraping never finds selected_sources empty: the combo box holds
\* "All Sources" and names of the catalog, and the catalog is never emptied
SelectionNeverEmpty == warnings = 0

\* C7: the sources are scraped one at a time, in the order of the list, each
\* at most once: the calls of scrape_source that began are those of the
\* sources 1, 2, 3, ... in this order, and one begins only when the one
\* before it has ended.
C7_SequentialOnce ==
    \A t \in Threads :
        LET th == threads[t]
        IN  /\ th.started = [k \in 1..Len(th.started) |-> k]
            /\ Len(th.started) <= Len(SourcesOf(t))
            /\ IF th.pc = "scrape" THEN Len(th.results) = Len(th.started) - 1
               ELSE Len(th.results) = Len(th.started)

\* a run went on to its second source after the first one failed
C7_Witness ==
    \E t \in Threads :
        /\ threads[t].pc = "scrape"
        /\ threads[t].started = <<1, 2>>
        /\ ~threads[t].results[1].ok

----------------------------------------------------------------------------
(* Properties of the extraction loop (specification SpecExtract) *)

\* C8: no two records emitted for one source in one pass have the same title.
C8_DistinctTitles ==
    ex.pc # "idle" =>
        \A j, k \in 1..Len(ex.st.headlines) :
            j # k => ex.st.headlines[j].title # ex.st.headlines[k].title

\* the pass has ended with two records, having met again a title already emitted
C8_Witness ==
    /\ ex.pc = "returned"
    /\ Len(ex.st.headlines) = 2
    /\ \E k \in 1..Len(ex.decisions) :
           ex.decisions[k].title \in ex.decisions[k].seen

\* the titles of the pool that contain a term of the blacklist, whatever the case
BlacklistedTitles ==
    {Titles[e] : e \in {x \in Elements :
        \E k \in 1..Len(skip_patterns) :
            Contains(ToLower(Titles[x]), ToLower(skip_patterns[k]))}}

\* the rejection rule as the claim states it
ClaimRejects(title, seen) ==
    \/ Len(title) < 15
    \/ title \in seen
    \/ (title \in BlacklistedTitles /\ Len(title) < 30)

\* the titles of the elements that no test rejects, duplicates apart
Acceptable(elements) ==
    {Titles[elements[k]] : k \in {j \in 1..Len(elements) :
                                      ~ClaimRejects(Titles[elements[j]], {})}}

Min(a, b) == IF a <= b THEN a ELSE b

\* C9: at most max_headlines records are emitted, count counts the records
\* emitted and nothing else, and when the pass returns it has emitted
\* max_headlines records or one for every title that no test rejects.
C9_LimitCountsAccepted ==
    ex.pc # "idle" =>
        /\ Len(ex.st.headlines) <= ex.max_headlines
        /\ ex.st.count = Len(ex.st.headlines)
        /\ ex.pc = "returned" =>
               Len(ex.st.headlines) =
                   Min(ex.max_headlines, Cardinality(Acceptable(ex.elements)))

\* the pass went past a rejected element, then reached max_headlines with
\* elements left
C9_Witness ==
    /\ ex.pc = "returned"
    /\ Len(ex.st.headlines) = ex.max_headlines
    /\ ex.max_headlines = 2
    /\ ~ex.decisions[1].passed
    /\ ex.decisions[2].emitted

\* C10: a title passes the tests exactly when the rule of the claim does not
\* reject it; "News" and a 20-character title with "Breaking" are rejected, a
\* 40-character title with "Breaking" that was not seen passes; and every
\* emitted record has a title of at least 15 characters.
C10_RejectionRule ==
    ex.pc # "idle" =>
        /\ \A k \in 1..Len(ex.decisions) :
               LET d == ex.decisions[k]
               IN  /\ d.passed <=> ~ClaimRejects(d.title, d.seen)
                   /\ d.emitted => d.passed
                   /\ d.title = <<"N","e","w","s">> => ~d.passed
                   /\ d.title = <<"B","R","E","A","K","I","N","G"," ","s","t","o","r","m"," ","a","h","e","a","d">> => ~d.passed
                   /\ d.title = <<"B","r","e","a","k","i","n","g",":"," ","p","a","r","l","i","a","m","e","n","t"," ","p","a","s","s","e","s"," ","a"," ","n","e","w"," ","b","u","d","g","e","t">>
                          /\ d.title \notin d.seen => d.passed
        /\ \A k \in 1..Len(ex.st.headlines) : Len(ex.st.headlines[k].title) >= 15

\* one pass has met "News", the 20-character title and the 40-character one
C10_Witness ==
    /\ ex.pc = "returned"
    /\ Len(ex.decisions) = 3
    /\ ex.decisions[1].title = <<"N","e","w","s">> /\ ~ex.decisions[1].passed
    /\ Len(ex.decisions[2].title) = 20 /\ ~ex.decisions[2].passed
    /\ Len(ex.decisions[3].title) = 40 /\ ex.decisions[3].emitted

----------------------------------------------------------------------------
(* The url of a record (specification SpecExtract) *)

\* the positions of the elements for which a record was emitted, in order
EmittedAt == {k \in 1..Len(ex.decisions) : ex.decisions[k].emitted}

\* a URL with a scheme
IsAbsolute(url) == url # <<>> /\ urlsplit(url, <<>>).scheme # <<>>

\* the url a record has by the rule of C11: the href of the anchor itself or
\* of the first anchor below the element; the entry URL when there is none; a
\* relative one resolved against the entry URL
RuleUrl(element, source) ==
    LET href == IF element.name = "a" THEN element.href ELSE element.ahref
    IN  IF href = <<>> \/ href[1] = <<>> THEN source.url
        ELSE IF IsAbsolute(href[1]) THEN href[1]
        ELSE urljoin(source.url, href[1]).url

RuleUrls == [source \in KnownSources |-> [e \in Elements |-> RuleUrl(ElementPool[e], source)]]

\* the urls a record can have: the links the code computes, what the rule
\* gives, the entry URLs
PossibleUrls ==
    UNION {{RuleUrls[s][e] : e \in Elements}
           \cup {AbsoluteLinks[s][e].link[1] :
                     e \in {x \in Elements : AbsoluteLinks[s][x].link # <<>>}}
           \cup {s.url} : s \in KnownSources}

AbsoluteUrls == {u \in PossibleUrls : IsAbsolute(u)}

\* C11: the url of every record is the one the rule gives for the element it
\* was made from: own href for an anchor, href of the first anchor below for
\* another element, the entry URL when no href is found, a relative href
\* resolved against the entry URL; /world/story-1 on https://example.com/news
\* gives https://example.com/world/story-1.
C11_UrlResolution ==
    ex.pc # "idle" =>
        /\ \A j \in 1..Len(ex.st.headlines) :
               ex.st.headlines[j].url = RuleUrls[ex.source][ex.elements[Nth(EmittedAt, j)]]
        /\ urljoin(<<"h","t","t","p","s",":","/","/","e","x","a","m","p","l","e",".","c","o","m","/","n","e","w","s">>, <<"/","w","o","r","l","d","/","s","t","o","r","y","-","1">>).url
               = <<"h","t","t","p","s",":","/","/","e","x","a","m","p","l","e",".","c","o","m","/","w","o","r","l","d","/","s","t","o","r","y","-","1">>

\* C12: every record has a url that is not empty and is absolute.
C12_UrlAbsolute ==
    ex.pc # "idle" =>
        \A j \in 1..Len(ex.st.headlines) :
            /\ ex.st.headlines[j].url # <<>>
            /\ ex.st.headlines[j].url \in AbsoluteUrls

----------------------------------------------------------------------------
(* The attempt loop (specification SpecFetch) *)

\* the requests sent so far, in order
Requests == SelectSeq(ex.st.trace, LAMBDA op : op.op = "get")

\* the call under way is for a source protected against bots
InHardened == ex.pc # "idle" /\ is_hardened(ex.source.url)

\* C13: 403, 403, 200 succeeds, the first request with the default User-Agent
\* and the two others with the alternate one; a request carries the alternate
\* User-Agent exactly when an earlier request of the call was answered 403.
C13_AlternateAgentAfter403 ==
    InHardened =>
        /\ \A k \in 1..Len(Requests) :
               Requests[k].user_agent =
                   IF \E j \in 1..(k - 1) : ex.outcomes[j] = Resp(403)
                   THEN "Safari" ELSE "Chrome"
        /\ ex.pc = "ended" /\ ex.outcomes = <<Resp(403), Resp(403), Resp(200)>> =>
               /\ ex.error = <<>>
               /\ ex.fetched[1].status = 200
               /\ [k \in 1..Len(Requests) |-> Requests[k].user_agent]
                      = <<"Chrome", "Safari", "Safari">>

\* the call met 403, 403, 200 and has its page
C13_Witness ==
    /\ ex.pc = "ended"
    /\ ex.outcomes = <<Resp(403), Resp(403), Resp(200)>>
    /\ Len(Requests) = 3
    /\ ex.error = <<>>

\* C14: when the last of the max_attempts requests is answered with a status
\* other than 200, scrape_source raises the error of a blocked source, and
\* the error shows the status of that answer.
C14_BlockedCarriesStatus ==
    InHardened /\ ex.pc = "ended" /\ Len(Requests) = max_attempts
        /\ ex.outcomes[max_attempts].exc = "" /\ ex.outcomes[max_attempts].status # 200 =>
            /\ ex.error # <<>>
            /\ ex.error[1].cause = "no access"
            /\ ex.error[1].status = ex.outcomes[max_attempts].status

\* C19: at most 3 requests are sent in a call, time.sleep(2) comes before the
\* first of them, and no request follows one that was answered 200.
C19_AtMostThreeRequests ==
    InHardened =>
        /\ Len(Requests) <= 3
        /\ ex.st.trace[1] = Sleep(2)
        /\ \A j \in 1..(Len(Requests) - 1) : ex.outcomes[j] # Resp(200)

\* the call ended after two requests, the second answered 200
C19_Witness ==
    /\ InHardened
    /\ ex.pc = "ended"
    /\ ex.outcomes[1] = Resp(500) /\ ex.outcomes[2] = Resp(200)
    /\ Len(Requests) = 2
    /\ ex.error = <<>>

\* C20: a request of attempt 1 or 2 that fails in transport is followed by
\* the next attempt; when the request of attempt 3 fails in transport, that
\* failure is the error of the call; and a transport failure is the error of
\* the call only if it is the one of attempt 3.
C20_LastFailureReported ==
    InHardened /\ ex.pc = "ended" =>
        /\ \A k \in 1..2 :
               k <= Len(Requests) /\ ex.outcomes[k].exc # "" => Len(Requests) > k
        /\ Len(Requests) = 3 /\ ex.outcomes[3].exc # "" =>
               /\ ex.error # <<>>
               /\ ex.error[1].cause = ex.outcomes[3].exc
        /\ ex.error # <<>> /\ ex.error[1].cause \in {"timeout", "connection"} =>
               Len(Requests) = 3 /\ ex.outcomes[3].exc = ex.error[1].cause

\* two time-outs were passed over and the connection error of attempt 3 is
\* the error of the call
C20_Witness ==
    /\ ex.pc = "ended"
    /\ ex.outcomes = <<Exc("timeout"), Exc("timeout"), Exc("connection")>>
    /\ ex.error # <<>>
    /\ ex.error[1].cause = "connection"

----------------------------------------------------------------------------
(* Further properties of a run of the worker (specification Spec) *)

\* the page of the input net is fetched and parsed
Delivered(source, net) ==
    Fetch(source, net.outcomes).raised = <<>> /\ ~ParseMarkup(net.parsers).raised

\* nothing is selected on the page, or every selected element fails a test
NothingToEmit(source, net) ==
    LET elements == SelectElements(net.page, source)
    IN  \A k \in 1..Len(elements) : ClaimRejects(Titles[elements[k]], {})

\* for every source and every input drawn for it, whether its page is fetched
\* and parsed and nothing of it is emitted, computed once
QuietInputs ==
    [source \in KnownSources |->
        [net \in NetInputs(source) |->
            Delivered(source, net) /\ NothingToEmit(source, net)]]

\* C15: a source whose page is fetched and parsed, and on which nothing is
\* selected or every selected element is rejected, ends as a source that
\* succeeded, with no record: no error_occurred for it, and the progress of the
\* run moves on as after any source that succeeded.
C15_EmptyIsNotAnError ==
    \A t \in Threads :
        LET th == threads[t]
            sources == SourcesOf(t)
        IN  \A k \in 1..Len(th.results) :
                QuietInputs[sources[k]][th.results[k].net] =>
                        /\ th.results[k].ok
                        /\ th.results[k].headlines = <<>>
                        /\ Len(SignalsOf(th.events, "error_occurred"))
                               = Cardinality(Failures(th.results))
                        /\ \E j \in 1..Len(th.events) :
                               th.events[j] = ProgressUpdate((k * 100) \div th.total_sources)

\* a run has ended without any error signal after a source on whose page
\* nothing was selected and one whose elements were all rejected
C15_Witness ==
    \E t \in Threads :
        /\ Terminated(t)
        /\ \E j, k \in 1..Len(threads[t].results) :
               /\ threads[t].results[j].ok /\ threads[t].results[k].ok
               /\ SelectElements(threads[t].results[j].net.page, SourcesOf(t)[j]) = <<>>
               /\ SelectElements(threads[t].results[k].net.page, SourcesOf(t)[k]) # <<>>
               /\ NothingToEmit(SourcesOf(t)[k], threads[t].results[k].net)
        /\ SignalsOf(threads[t].events, "error_occurred") = <<>>
        /\ Payload(t) = <<>>

\* C17: the catalog always holds exactly the preconfigured sources, and the
\* list of sources of a run holds at most one custom source.
C17_CatalogUnchanged ==
    /\ news_sources = InitialCatalog
    /\ \A t \in Threads :
           Cardinality({k \in 1..Len(SourcesOf(t)) :
                           SourcesOf(t)[k].name = "Custom URL"}) <= 1

\* the requests of the k-th scrape_source call of thread t
RequestsOf(t, k) ==
    SelectSeq(Fetch(SourcesOf(t)[k], threads[t].results[k].net.outcomes).trace,
              LAMBDA op : op.op = "get")

\* C18: every request of a run is sent with the timeout of the settings tab,
\* and the pause after a source is the delay of the settings tab.
C18_SettingsUsed ==
    \A t \in Threads :
        \A k \in 1..Len(threads[t].results) :
            /\ \A j \in 1..Len(RequestsOf(t, k)) : RequestsOf(t, k)[j].secs = timeout_spin
            /\ threads[t].results[k].ok =>
                   threads[t].results[k].slept_ms = delay_spin * 1000

----------------------------------------------------------------------------
(* The fetch of the two kinds of source (specification SpecFetch) *)

\* the call under way is for an ordinary source
InStandard == ex.pc # "idle" /\ ~is_hardened(ex.source.url)

\* C21: an ordinary source is sent exactly one request in a call, whatever
\* the request meets, with the default User-Agent, and the call sleeps neither
\* before nor after it.
C21_StandardSingleRequest ==
    InStandard =>
        /\ Len(Requests) <= 1
        /\ \A k \in 1..Len(ex.st.trace) : ex.st.trace[k].op = "get"
        /\ ex.pc = "ended" =>
               /\ Len(Requests) = 1
               /\ Requests[1].user_agent = "Chrome"

\* the call for an ordinary source has ended on a 403 after one request
C21_Witness ==
    /\ InStandard
    /\ ex.pc = "ended"
    /\ ex.outcomes[1] = Resp(403)
    /\ Len(ex.st.trace) = 1
    /\ ex.error # <<>>

\* C22: when stop() is called between two attempts of a protected source (at
\* least one request sent, the loop not left, attempts remaining), no further
\* request is sent in the call.
C22_StopBetweenAttempts ==
    (/\ InHardened
     /\ ex.stopped_at # <<>>
     /\ ex.stopped_at[1].attempt >= 1
     /\ ex.stopped_at[1].attempt < max_attempts
     /\ ~ex.stopped_at[1].done)
        => Len(Requests) = ex.stopped_at[1].attempt

\* C23: the session of a call is the session of the run: the first request
\* of the second call of a run carries the User-Agent the session had at the
\* end of the first call.
C23_OneSessionPerRun ==
    ex.pc # "idle" /\ ex.prev_agent # <<>> =>
        \A k \in 1..Len(Requests) : k = 1 => Requests[k].user_agent = ex.prev_agent[1]

\* the response of the call
LastStatus == ex.st.response[1]

\* C30: the call of a protected source goes on to parsing exactly when its
\* last response has status 200; the call of an ordinary source that gets a
\* response goes on to parsing exactly when the status is not a 4xx or 5xx
\* one, and ends with an error otherwise.
C30_AcceptedStatuses ==
    ex.pc = "ended" =>
        /\ InHardened =>
               ((ex.error = <<>>) <=> (/\ ex.st.response # <<>>
                                       /\ ex.st.raised = <<>>
                                       /\ LastStatus = 200))
        /\ InStandard /\ ex.outcomes[1].exc = "" =>
               /\ (ex.error = <<>>) <=> ~(ex.outcomes[1].status \in 400..599)
               /\ (ex.error = <<>>) => (ex.fetched[1].status = ex.outcomes[1].status)

\* the call of an ordinary source went on to parsing with status 204
C30_Witness ==
    /\ InStandard
    /\ ex.pc = "ended"
    /\ ex.outcomes[1] = Resp(204)
    /\ ex.error = <<>>

\* the positions of the selectors of a list for which soup.select returns at
\* least one element on the page
Live(page, selectors) ==
    {k \in 1..Len(selectors) :
        /\ selectors[k] \in DOMAIN page
        /\ page[selectors[k]] # <<>>
        /\ page[selectors[k]] # SelectorError}

Earliest(S) == CHOOSE k \in S : \A j \in S : k <= j

\* C24: the selected elements are the matches of one selector: the first
\* selector of the source that matches at least one element; the first such
\* selector of the fallback list when no selector of the source matches, or
\* they raise; nothing when none matches.  The matches of two selectors are
\* never merged and a selector that raises does not end the selection.
C24_FirstMatchWins ==
    (ex.pc = "ended" /\ ex.error = <<>>) =>
        IF Live(ex.page, ex.source.selectors) # {}
        THEN ex.elements =
                 ex.page[ex.source.selectors[Earliest(Live(ex.page, ex.source.selectors))]]
        ELSE IF Live(ex.page, alternative_selectors) # {}
        THEN ex.elements =
                 ex.page[alternative_selectors[Earliest(Live(ex.page,
                                                             alternative_selectors))]]
        ELSE ex.elements = <<>>

\* the first selector of the source raises, the second matches, and so does a
\* selector of the fallback list
C24_Witness ==
    /\ ex.pc = "ended"
    /\ ex.error = <<>>
    /\ Raises(ex.page, ex.source.selectors[1])
    /\ Live(ex.page, ex.source.selectors) = {2}
    /\ Live(ex.page, alternative_selectors) # {}
    /\ ex.elements = ex.page[ex.source.selectors[2]]

\* C25: the backends are run in the order lxml, html.parser, html5lib up to
\* the first one that builds a tree, whose tree is kept; no backend is run
\* after it; the source fails with a parse error exactly when all three fail.
C25_FirstWorkingBackend ==
    ex.parsed # <<>> =>
        /\ ex.parsed[1].raised <=> (\A k \in 1..Len(backends) : ~ex.parsers[k])
        /\ (ex.error # <<>>) <=> ex.parsed[1].raised
        /\ ex.parsed[1].raised => ex.parsed[1].tried = [k \in 1..Len(backends) |-> k]
        /\ ~ex.parsed[1].raised =>
               /\ ex.parsed[1].backend = Earliest({k \in 1..Len(backends) : ex.parsers[k]})
               /\ ex.parsed[1].tried = [k \in 1..ex.parsed[1].backend |-> k]

\* lxml and html.parser fail and html5lib builds the tree
C25_Witness ==
    /\ ex.parsed # <<>>
    /\ ex.parsers = <<FALSE, FALSE, TRUE>>
    /\ backends[ex.parsed[1].backend] = "html5lib"
    /\ ex.error = <<>>

\* C26: when run() begins the call for a source, it has slept the fixed pause
\* after the call for the source before it, whether that call returned or
\* raised.
C26_PauseAfterEverySource ==
    \A t \in Threads :
        \A k \in 1..Len(threads[t].started) :
            k > 1 => threads[t].results[k - 1].slept_ms = request_pause_ms

\* C27: when a run has ended, the list finished_scraping carries is the
\* sequence of the records headline_found announced in the run, in order,
\* also when a source failed or the run was stopped.
C27_AggregateIsAnnounced ==
    \A t \in Threads :
        Terminated(t) =>
            /\ Len(Payload(t)) = Len(SignalsOf(threads[t].events, "headline_found"))
            /\ \A k \in 1..Len(Payload(t)) :
                   Payload(t)[k] = SignalsOf(threads[t].events, "headline_found")[k].data

\* the values of the progress_update signals among events, in order
ProgressValues(events) ==
    [k \in 1..Len(SignalsOf(events, "progress_update")) |->
        SignalsOf(events, "progress_update")[k].value]

\* the positions, in the list of its run, of the sources whose call returned:
\* the k-th progress_update is emitted for the k-th of them
Successes(results) == {k \in 1..Len(results) : results[k].ok}

\* values never decrease, lie between 0 and 100, there is one for each of
\* successes, and 100 is the value of position last only
ProgressInOrder(values, successes, last) ==
    /\ Len(values) = Cardinality(successes)
    /\ \A k \in 1..Len(values) :
           /\ values[k] \in 0..100
           /\ k > 1 => values[k - 1] <= values[k]
           /\ values[k] = 100 => Nth(successes, k) = last

\* C28: the progress values of a run never decrease, lie between 0 and 100,
\* and 100 is emitted only for the last source of the list.
C28_ProgressMonotone ==
    \A t \in Threads :
        ProgressInOrder(ProgressValues(threads[t].events), Successes(threads[t].results),
                        Len(SourcesOf(t)))

\* a run over three sources has ended; the first and the last returned, with
\* progress 33 and 100
C28_Witness ==
    \E t \in Threads :
        /\ Terminated(t)
        /\ Len(SourcesOf(t)) = 3
        /\ Successes(threads[t].results) = {1, 3}
        /\ ProgressValues(threads[t].events) = <<33, 100>>

\* C29: in every state in which run() of a worker is under way and has not
\* yet emitted finished_scraping, the Start button is disabled and the Stop
\* button is enabled.
C29_ButtonsFollowWorker ==
    \A t \in Threads :
        threads[t].alive /\ threads[t].pc \in {"loop", "scrape", "emit"}
            => ~scrape_btn /\ stop_btn

====
